---------------------------- MODULE Spec2Model ----------------------------
(***************************************************************************)
(* A model of the py-pipedrive-api client library: the Pipedrive facade,   *)
(* its three resource clients (DealAPI, OrganizationAPI, PersonAPI), the   *)
(* field-metadata cache of FieldsMixin, the four result caches of          *)
(* OrganizationAPI, the response normalizer process_response and the       *)
(* address matcher filter_results.                                         *)
(*                                                                         *)
(* The remote service is the environment: every HTTP call draws its        *)
(* response from a bounded set.  Each handler is one action; the record    *)
(* `last` keeps what the latest call was given, what it returned or        *)
(* raised, and the HTTP requests it issued.                                *)
(***************************************************************************)
EXTENDS Integers, Sequences, FiniteSets, TLC

VARIABLES
    environ,          \* os.environ.get("PIPEDRIVE_API_KEY")
    pipedrive,        \* the attributes of the Pipedrive object, or NoObject
    fields,           \* per resource: self.fields
    fields_by_key,    \* per resource: self.fields_by_key (or Unset)
    fields_by_name,   \* per resource: self.fields_by_name (or Unset)
    _details_cache,   \* OrganizationAPI._details_cache
    _find_cache,      \* OrganizationAPI._find_cache
    _people_cache,    \* OrganizationAPI._people_cache
    _deals_cache,     \* OrganizationAPI._deals_cache
    calls,            \* how many cache-checked reads were made so far
    last              \* the latest call: [op, args, out, reqs]

facadeVars == <<environ, pipedrive>>
fieldVars == <<fields, fields_by_key, fields_by_name>>
resultCaches == <<_details_cache, _find_cache, _people_cache, _deals_cache>>
cacheVars == <<_details_cache, _find_cache, _people_cache, _deals_cache, calls>>
vars == <<environ, pipedrive, fields, fields_by_key, fields_by_name,
          _details_cache, _find_cache, _people_cache, _deals_cache, calls, last>>

----------------------------------------------------------------------------
(* Python values.  A JSON payload is [kind, val, items]: val holds the      *)
(* elements of a list or the keys of a mapping, items the value stored      *)
(* under the key "items" of a mapping that has one.                         *)

PyNone == [kind |-> "null", val |-> <<>>, items |-> <<>>]
JList(s) == [kind |-> "list", val |-> s, items |-> <<>>]
JDict(keys) == [kind |-> "dict", val |-> keys, items |-> <<>>]
JSearch(s) == [kind |-> "dict", val |-> <<"items">>, items |-> s]
AbsentData == [kind |-> "absent", val |-> <<>>, items |-> <<>>]

Range(s) == {s[i] : i \in DOMAIN s}

\* Python truthiness of a payload: None, [] and {} are falsy.
Truthy(p) == p.kind # "null" /\ p.val # <<>>

\* Truthiness of a JSON boolean field of an envelope.
JTruthy(b) == b = "true"

\* What a call did: it returned a value or raised an exception.
Return(v) == [kind |-> "return", val |-> v]
Raise(e, d) == [kind |-> "raise", exc |-> e, detail |-> d]
IsReturn(o) == o.kind = "return"
IsRaise(o) == o.kind = "raise"

NoCall == [op |-> "none", args |-> <<>>, out |-> Return(PyNone), reqs |-> <<>>]

\* A call that was made and has not run yet.
Pending(op, args) == [op |-> "pending", call |-> op, args |-> args]

----------------------------------------------------------------------------
(* HTTP responses: a status code, the raw text, and the parsed JSON body    *)
(* whose four envelope fields may each be absent.                           *)

HTTP_OK == 200

StatusCodes == {200, 404, 500}
Texts == {"Not Found", "oops"}
Flags == {"absent", "true", "false"}
Errors == {"absent", "E"}

DataShapes ==
    {AbsentData, PyNone, JList(<<>>), JList(<<"a">>), JDict(<<>>), JDict(<<"id">>)}

Body(su, d, st, e) == [success |-> su, data |-> d, status |-> st, error |-> e]
Response(c, t, b) == [status_code |-> c, text |-> t, body |-> b]

AllResponses ==
    {Response(c, t, Body(su, d, st, e)) :
        c \in StatusCodes, t \in Texts, su \in Flags, d \in DataShapes,
        st \in Flags, e \in Errors}

\* `key in json_data`
HasKey(json_data, key) ==
    CASE key = "success" -> json_data.success # "absent"
      [] key = "data" -> json_data.data.kind # "absent"
      [] key = "status" -> json_data.status # "absent"
      [] key = "error" -> json_data.error # "absent"

\* process_response without the test of the body's status field.
process_response_ignoring_status(response) ==
    IF response.status_code = HTTP_OK
    THEN LET json_data == response.body IN
         IF HasKey(json_data, "success") /\ JTruthy(json_data.success)
         THEN IF HasKey(json_data, "data")
              THEN Return(json_data.data)
              ELSE Raise("KeyError", "data")
         ELSE Return(PyNone)
    ELSE Raise("Exception", response.text)

\* utils.process_response
process_response(response) ==
    IF response.status_code = HTTP_OK
    THEN LET json_data == response.body IN
         IF HasKey(json_data, "success") /\ JTruthy(json_data.success)
         THEN IF HasKey(json_data, "data")
              THEN Return(json_data.data)
              ELSE Raise("KeyError", "data")
         ELSE IF HasKey(json_data, "status") /\ ~JTruthy(json_data.status)
              THEN IF HasKey(json_data, "error")
                   THEN Raise("Exception", json_data.error)
                   ELSE Raise("KeyError", "error")
              ELSE Return(PyNone)
    ELSE Raise("Exception", response.text)

----------------------------------------------------------------------------
(* Strings.  A str-typed argument is a string, or NoArg for Python's None.  *)
(* A formatted string is the sequence of its parts.  A name that is         *)
(* lowercased is a sequence of characters.                                  *)

NoArg == "<None>"
Falsy(s) == s = NoArg \/ s = ""

LowerChar(c) ==
    CASE c = "E" -> "e"
      [] c = "M" -> "m"
      [] c = "P" -> "p"
      [] OTHER -> c

\* str.lower()
Lower(name) == [i \in DOMAIN name |-> LowerChar(name[i])]

----------------------------------------------------------------------------
(* The facade and the URI builders of URIMixin.                             *)

Resources == {"deals", "organizations", "persons"}
NoObject == [constructed |-> FALSE]
Unset == [set |-> FALSE]
Dict(m) == [set |-> TRUE, map |-> m]

\* self.base_endpoint, set by each client's __init__
base_endpoint(r) == r

\* self.fields_endpoint, set by each client's __init__
fields_endpoint(r) ==
    CASE r = "deals" -> "dealFields"
      [] r = "organizations" -> "organizationFields"
      [] r = "persons" -> "personFields"

\* The attributes Pipedrive.__init__ sets before it constructs the clients.
Facade(subdomain, api_key) ==
    [constructed |-> TRUE,
     base_url |-> <<"https://", subdomain, ".pipedrive.com/api/v1/">>,
     api_key |-> api_key,
     api_token |-> <<"api_token=", api_key>>]

HasAttr(obj, a) == a \in DOMAIN obj

\* URIMixin._get_base_uri: reads self.pipedrive.base_endpoint
_get_base_uri(pd, r) ==
    IF HasAttr(pd, "base_endpoint")
    THEN Return(<<pd.base_endpoint, "/", base_endpoint(r), "?">> \o pd.api_token)
    ELSE Raise("AttributeError", "base_endpoint")

\* URIMixin._get_fields_endpoint_uri
_get_fields_endpoint_uri(pd, r) ==
    pd.base_url \o <<fields_endpoint(r), "?">> \o pd.api_token

\* URIMixin._get_details_uri
_get_details_uri(pd, r, obj_id) ==
    pd.base_url \o <<base_endpoint(r), "/", obj_id, "?">> \o pd.api_token

Request(method, uri, data) == [method |-> method, uri |-> uri, data |-> data]
NoData == <<>>

----------------------------------------------------------------------------
(* The field-metadata cache of FieldsMixin.                                 *)

MaxFields == 2

FieldDefs ==
    {[key |-> "k1", name |-> <<"E", "m">>],
     [key |-> "k2", name |-> <<"e", "m">>]}

RECURSIVE SeqsUpTo(_, _)
SeqsUpTo(S, n) ==
    IF n = 0 THEN {<<>>}
    ELSE LET shorter == SeqsUpTo(S, n - 1) IN
         shorter \cup {Append(s, x) : s \in shorter, x \in S}

FieldLists == SeqsUpTo(FieldDefs, MaxFields)

\* What the fields endpoint answers: success with a list of field
\* definitions, an envelope with a false success, or the alternate failure
\* envelope {"status": false, "error": ...} that has no success field.
FieldResponses ==
    {Body("true", JList(l), "absent", "absent") : l \in FieldLists}
    \cup {Body("false", AbsentData, "absent", "E"),
          Body("absent", AbsentData, "false", "E")}

DictSet(d, k, v) == [x \in (DOMAIN d) \cup {k} |-> IF x = k THEN v ELSE d[x]]

\* {field["key"]: field for field in data}
RECURSIVE ByKey(_, _)
ByKey(data, d) ==
    IF data = <<>> THEN d
    ELSE ByKey(Tail(data), DictSet(d, Head(data).key, Head(data)))

\* {field["name"].lower(): field for field in data}
RECURSIVE ByName(_, _)
ByName(data, d) ==
    IF data = <<>> THEN d
    ELSE ByName(Tail(data), DictSet(d, Lower(Head(data).name), Head(data)))

\* The state of one client's field cache.
FieldState(f, bk, bn) == [fields |-> f, fields_by_key |-> bk, fields_by_name |-> bn]

\* A refresh that rebuilds the key index and leaves the name index stale.
_get_fields_stale_names(fs, no_cache, json_data) ==
    IF Truthy(fs.fields) /\ ~no_cache
    THEN [out |-> Return(fs.fields), fs |-> fs, fetched |-> FALSE]
    ELSE IF ~HasKey(json_data, "success")
    THEN [out |-> Raise("KeyError", "success"), fs |-> fs, fetched |-> TRUE]
    ELSE IF ~JTruthy(json_data.success)
    THEN [out |-> Return(PyNone), fs |-> fs, fetched |-> TRUE]
    ELSE [out |-> Return(json_data.data),
          fs |-> FieldState(json_data.data,
                            Dict(ByKey(json_data.data.val, <<>>)),
                            IF fs.fields_by_name = Unset
                            THEN Dict(ByName(json_data.data.val, <<>>))
                            ELSE fs.fields_by_name),
          fetched |-> TRUE]

\* FieldsMixin._get_fields on the field cache fs of one client; json_data is
\* what the fields endpoint answers if it is asked.
_get_fields(fs, no_cache, json_data) ==
    IF Truthy(fs.fields) /\ ~no_cache
    THEN [out |-> Return(fs.fields), fs |-> fs, fetched |-> FALSE]
    ELSE IF ~HasKey(json_data, "success")
    THEN [out |-> Raise("KeyError", "success"), fs |-> fs, fetched |-> TRUE]
    ELSE IF ~JTruthy(json_data.success)
    THEN [out |-> Return(PyNone), fs |-> fs, fetched |-> TRUE]
    ELSE [out |-> Return(json_data.data),
          fs |-> FieldState(json_data.data,
                            Dict(ByKey(json_data.data.val, <<>>)),
                            Dict(ByName(json_data.data.val, <<>>))),
          fetched |-> TRUE]

\* The field cache a client's __init__ starts from: self.fields = None, and
\* neither index attribute is set.
NewFieldState == FieldState(PyNone, Unset, Unset)

\* dict.get(key)
DictGet(d, k) == IF k \in DOMAIN d THEN d[k] ELSE PyNone

\* FieldsMixin.get_field_by_key
get_field_by_key(fs, key) ==
    IF fs.fields_by_key = Unset
    THEN Raise("AttributeError", "fields_by_key")
    ELSE Return(DictGet(fs.fields_by_key.map, key))

\* FieldsMixin.get_field_by_name
get_field_by_name(fs, name) ==
    IF fs.fields_by_name = Unset
    THEN Raise("AttributeError", "fields_by_name")
    ELSE Return(DictGet(fs.fields_by_name.map, Lower(name)))

----------------------------------------------------------------------------
(* The state every specification starts its unrelated parts from.           *)

FacadeIdle ==
    /\ environ = NoArg
    /\ pipedrive = NoObject

FieldsIdle ==
    /\ fields = [r \in Resources |-> PyNone]
    /\ fields_by_key = [r \in Resources |-> Unset]
    /\ fields_by_name = [r \in Resources |-> Unset]

CachesIdle ==
    /\ _details_cache = <<>>
    /\ _find_cache = <<>>
    /\ _people_cache = <<>>
    /\ _deals_cache = <<>>
    /\ calls = 0

----------------------------------------------------------------------------
(* Pipedrive.__init__ and the clients' constructors.                        *)

Subdomains == {NoArg, "", "acme"}
ApiKeys == {NoArg, "", "k1"}
EnvValues == {NoArg, "", "k2"}

\* DealAPI / OrganizationAPI / PersonAPI.__init__: self.fields = None, then
\* self._get_fields().
ClientInit(pd, r, json_data) ==
    LET g == _get_fields(NewFieldState, FALSE, json_data) IN
    [out |-> IF IsRaise(g.out) THEN g.out ELSE Return(PyNone),
     fs |-> g.fs,
     reqs |-> IF g.fetched
              THEN <<Request("GET", _get_fields_endpoint_uri(pd, r), NoData)>>
              ELSE <<>>]

Failed(out, reqs, built) ==
    [out |-> out, reqs |-> reqs, built |-> built,
     obj |-> NoObject, fs |-> [r \in Resources |-> NewFieldState]]

\* Pipedrive.__init__ with the environment variable also consulted for an
\* api_key argument that is set but empty.
Pipedrive_init_env_for_empty_key(env, subdomain, api_key, resp) ==
    IF Falsy(subdomain)
    THEN Failed(Raise("ValueError", "Subdomain is required."), <<>>, <<>>)
    ELSE LET key == IF Falsy(api_key) THEN env ELSE api_key IN
    IF Falsy(key)
    THEN Failed(Raise("ValueError", "The API Key is required"), <<>>, <<>>)
    ELSE LET pd == Facade(subdomain, key)
             d == ClientInit(pd, "deals", resp["deals"])
             o == ClientInit(pd, "organizations", resp["organizations"])
             p == ClientInit(pd, "persons", resp["persons"])
         IN
         IF IsRaise(d.out) THEN Failed(d.out, d.reqs, <<>>)
         ELSE IF IsRaise(o.out) THEN Failed(o.out, d.reqs \o o.reqs, <<"deals">>)
         ELSE IF IsRaise(p.out)
         THEN Failed(p.out, d.reqs \o o.reqs \o p.reqs, <<"deals", "organizations">>)
         ELSE [out |-> Return(PyNone),
               reqs |-> d.reqs \o o.reqs \o p.reqs,
               built |-> <<"deals", "organizations", "persons">>,
               obj |-> [constructed |-> TRUE, base_url |-> pd.base_url,
                        api_key |-> pd.api_key, api_token |-> pd.api_token,
                        deals |-> "DealAPI", organizations |-> "OrganizationAPI",
                        people |-> "PersonAPI"],
               fs |-> [r \in Resources |->
                          CASE r = "deals" -> d.fs
                            [] r = "organizations" -> o.fs
                            [] r = "persons" -> p.fs]]

\* Pipedrive.__init__(subdomain, api_key) under the environment value env;
\* resp[r] is what the fields endpoint of resource r answers.
Pipedrive_init(env, subdomain, api_key, resp) ==
    IF Falsy(subdomain)
    THEN Failed(Raise("ValueError", "Subdomain is required."), <<>>, <<>>)
    ELSE LET key == IF api_key = NoArg THEN env ELSE api_key IN
    IF Falsy(key)
    THEN Failed(Raise("ValueError", "The API Key is required"), <<>>, <<>>)
    ELSE LET pd == Facade(subdomain, key)
             d == ClientInit(pd, "deals", resp["deals"])
             o == ClientInit(pd, "organizations", resp["organizations"])
             p == ClientInit(pd, "persons", resp["persons"])
         IN
         IF IsRaise(d.out) THEN Failed(d.out, d.reqs, <<>>)
         ELSE IF IsRaise(o.out) THEN Failed(o.out, d.reqs \o o.reqs, <<"deals">>)
         ELSE IF IsRaise(p.out)
         THEN Failed(p.out, d.reqs \o o.reqs \o p.reqs, <<"deals", "organizations">>)
         ELSE [out |-> Return(PyNone),
               reqs |-> d.reqs \o o.reqs \o p.reqs,
               built |-> <<"deals", "organizations", "persons">>,
               obj |-> [constructed |-> TRUE, base_url |-> pd.base_url,
                        api_key |-> pd.api_key, api_token |-> pd.api_token,
                        deals |-> "DealAPI", organizations |-> "OrganizationAPI",
                        people |-> "PersonAPI"],
               fs |-> [r \in Resources |->
                          CASE r = "deals" -> d.fs
                            [] r = "organizations" -> o.fs
                            [] r = "persons" -> p.fs]]

\* The caller constructs the facade.  A constructor that raises leaves the
\* caller without an object.
Construct(subdomain, api_key, resp) ==
    /\ ~pipedrive.constructed
    /\ LET c == Pipedrive_init(environ, subdomain, api_key, resp) IN
       /\ last' = [op |-> "Pipedrive",
                   args |-> [subdomain |-> subdomain, api_key |-> api_key],
                   out |-> c.out, reqs |-> c.reqs, built |-> c.built]
       /\ pipedrive' = c.obj
       /\ fields' = [r \in Resources |-> c.fs[r].fields]
       /\ fields_by_key' = [r \in Resources |-> c.fs[r].fields_by_key]
       /\ fields_by_name' = [r \in Resources |-> c.fs[r].fields_by_name]
       /\ IF c.obj.constructed
          THEN /\ _details_cache' = <<>>
               /\ _find_cache' = <<>>
               /\ _people_cache' = <<>>
               /\ _deals_cache' = <<>>
          ELSE UNCHANGED resultCaches
    /\ UNCHANGED <<environ, calls>>

----------------------------------------------------------------------------
(* Field loads and lookups on a constructed client.                         *)

FieldStateOf(r) == FieldState(fields[r], fields_by_key[r], fields_by_name[r])

LookupKeys == {"k1", "k2", "zz"}
LookupNames == {<<"E", "M">>, <<"e", "m">>, <<"P">>, <<"x">>}

GetFields(r, no_cache, json_data) ==
    /\ pipedrive.constructed
    /\ LET g == _get_fields(FieldStateOf(r), no_cache, json_data) IN
       /\ fields' = [fields EXCEPT ![r] = g.fs.fields]
       /\ fields_by_key' = [fields_by_key EXCEPT ![r] = g.fs.fields_by_key]
       /\ fields_by_name' = [fields_by_name EXCEPT ![r] = g.fs.fields_by_name]
       /\ last' = [op |-> "_get_fields",
                   args |-> [r |-> r, no_cache |-> no_cache],
                   out |-> g.out,
                   reqs |-> IF g.fetched
                            THEN <<Request("GET", _get_fields_endpoint_uri(pipedrive, r),
                                           NoData)>>
                            ELSE <<>>]
    /\ UNCHANGED <<facadeVars, cacheVars>>

GetFieldByKey(r, key) ==
    /\ pipedrive.constructed
    /\ last' = [op |-> "get_field_by_key", args |-> [r |-> r, key |-> key],
                out |-> get_field_by_key(FieldStateOf(r), key), reqs |-> <<>>]
    /\ UNCHANGED <<facadeVars, fieldVars, cacheVars>>

GetFieldByName(r, name) ==
    /\ pipedrive.constructed
    /\ last' = [op |-> "get_field_by_name", args |-> [r |-> r, name |-> name],
                out |-> get_field_by_name(FieldStateOf(r), name), reqs |-> <<>>]
    /\ UNCHANGED <<facadeVars, fieldVars, cacheVars>>

----------------------------------------------------------------------------
(* create and update on the resource clients.                               *)

EmptyDict == [k \in {} |-> ""]

\* {**required, **extra_fields}
Merge(required, extra_fields) ==
    [k \in (DOMAIN required) \cup (DOMAIN extra_fields) |->
        IF k \in DOMAIN extra_fields THEN extra_fields[k] ELSE required[k]]

ObjectIds == {"1", "2"}
ExtraFields == {EmptyDict, [title |-> "X"], [name |-> "Y", value |-> "9"]}
UpdateFields == {EmptyDict, [title |-> "X"]}

\* What the remote answers to a create or an update.
RemoteResponses ==
    {Response(200, "ok", Body("true", JDict(<<"id">>), "absent", "absent")),
     Response(200, "ok", Body("true", PyNone, "absent", "absent")),
     Response(200, "ok", Body("false", AbsentData, "absent", "E")),
     Response(200, "ok", Body("absent", AbsentData, "false", "E")),
     Response(404, "Not Found", Body("false", AbsentData, "absent", "E")),
     Response(500, "oops", Body("absent", AbsentData, "absent", "absent"))}

\* requests.post(self._get_base_uri(), data=payload), then process_response:
\* the URI is built before the request is issued.
PostToBaseUri(pd, r, payload, response) ==
    LET uri == _get_base_uri(pd, r) IN
    IF IsRaise(uri)
    THEN [out |-> uri, reqs |-> <<>>]
    ELSE [out |-> process_response(response),
          reqs |-> <<Request("POST", uri.val, payload)>>]

\* DealAPI.create
DealCreate(organization_id, person_id, title, extra_fields, response) ==
    /\ pipedrive.constructed
    /\ LET payload == Merge([org_id |-> organization_id, person_id |-> person_id,
                             title |-> title], extra_fields)
           c == PostToBaseUri(pipedrive, "deals", payload, response)
       IN last' = [op |-> "create",
                   args |-> [r |-> "deals",
                             required |-> [org_id |-> organization_id,
                                           person_id |-> person_id, title |-> title],
                             extra_fields |-> extra_fields, response |-> response],
                   out |-> c.out, reqs |-> c.reqs]
    /\ UNCHANGED <<facadeVars, fieldVars, cacheVars>>

\* OrganizationAPI.create
OrgCreate(name, address, visible_to, extra_fields, response) ==
    /\ pipedrive.constructed
    /\ LET payload == Merge([name |-> name, visible_to |-> visible_to,
                             address |-> address], extra_fields)
           c == PostToBaseUri(pipedrive, "organizations", payload, response)
       IN last' = [op |-> "create",
                   args |-> [r |-> "organizations",
                             required |-> [name |-> name, visible_to |-> visible_to,
                                           address |-> address],
                             extra_fields |-> extra_fields, response |-> response],
                   out |-> c.out, reqs |-> c.reqs]
    /\ UNCHANGED <<facadeVars, fieldVars, cacheVars>>

\* update_deal that hands the response to process_response.
update_deal_parsing(pd, deal_id, update_fields, response) ==
    [out |-> process_response(response),
     reqs |-> <<Request("PUT", _get_details_uri(pd, "deals", deal_id), update_fields)>>]

\* DealAPI.update_deal: the response is dropped.
update_deal(pd, deal_id, update_fields, response) ==
    [out |-> Return(PyNone),
     reqs |-> <<Request("PUT", _get_details_uri(pd, "deals", deal_id), update_fields)>>]

\* OrganizationAPI.update: the response is dropped.
organization_update(pd, organization_id, update_fields, response) ==
    [out |-> Return(PyNone),
     reqs |-> <<Request("PUT", _get_details_uri(pd, "organizations", organization_id),
                        update_fields)>>]

\* An argument that is None, a str, a list or a dict.
NoneArg == [t |-> "none"]
StrArg(s) == [t |-> "str", v |-> s]
ListArg(l) == [t |-> "list", v |-> l]
DictArg(d) == [t |-> "dict", v |-> d]

\* emails / phones: None becomes [], a str becomes [str]
AsList(a) ==
    IF a.t = "none" THEN <<>>
    ELSE IF a.t = "str" THEN <<a.v>>
    ELSE a.v

EmailArgs == {NoneArg, StrArg("a@x"), ListArg(<<"a@x", "b@x">>)}
PhoneArgs == {NoneArg, StrArg("555")}
ExtraArgs == {NoneArg, DictArg([name |-> "Y"])}

\* PersonAPI.update: extra_fields defaults to None, and **None is a
\* TypeError raised while the payload is built; the response is handed to
\* process_response.
person_update(pd, person_id, emails, phones, extra_fields, response) ==
    IF extra_fields.t = "none"
    THEN [out |-> Raise("TypeError", "argument after ** must be a mapping"),
          reqs |-> <<>>]
    ELSE LET payload == Merge([id |-> <<person_id>>, email |-> AsList(emails),
                               phone |-> AsList(phones)],
                              [k \in DOMAIN extra_fields.v |-> <<extra_fields.v[k]>>])
         IN [out |-> process_response(response),
             reqs |-> <<Request("PUT", _get_details_uri(pd, "persons", person_id),
                                payload)>>]

Updated(r, obj_id, fields_given, response, u) ==
    /\ last' = [op |-> "update",
                args |-> [r |-> r, id |-> obj_id, fields_given |-> fields_given,
                          response |-> response],
                out |-> u.out, reqs |-> u.reqs]
    /\ UNCHANGED <<facadeVars, fieldVars, cacheVars>>

DealUpdate(deal_id, update_fields, response) ==
    /\ pipedrive.constructed
    /\ Updated("deals", deal_id, TRUE, response,
               update_deal(pipedrive, deal_id, update_fields, response))

OrgUpdate(organization_id, update_fields, response) ==
    /\ pipedrive.constructed
    /\ Updated("organizations", organization_id, TRUE, response,
               organization_update(pipedrive, organization_id, update_fields, response))

PersonUpdate(person_id, emails, phones, extra_fields, response) ==
    /\ pipedrive.constructed
    /\ Updated("persons", person_id, extra_fields.t # "none", response,
               person_update(pipedrive, person_id, emails, phones, extra_fields,
                             response))

----------------------------------------------------------------------------
(* The facade and its clients.                                              *)

Init ==
    /\ environ \in EnvValues
    /\ pipedrive = NoObject
    /\ FieldsIdle
    /\ CachesIdle
    /\ last = NoCall

\* The answers of the fields endpoints while the facade is constructed:
\* one successful load, and the two failure envelopes.
ConstructFieldResponses ==
    {Body("true", JList(<<[key |-> "k1", name |-> <<"E", "m">>]>>), "absent", "absent"),
     Body("false", AbsentData, "absent", "E"),
     Body("absent", AbsentData, "false", "E")}

Next ==
    \/ \E subdomain \in Subdomains, api_key \in ApiKeys,
          resp \in [Resources -> ConstructFieldResponses] :
            Construct(subdomain, api_key, resp)
    \/ \E o \in ObjectIds, e \in ExtraFields, response \in RemoteResponses :
            DealCreate(o, "7", "T", e, response)
    \/ \E e \in ExtraFields, response \in RemoteResponses :
            OrgCreate("N", "A", "3", e, response)
    \/ \E o \in ObjectIds, f \in UpdateFields, response \in RemoteResponses :
            DealUpdate(o, f, response)
    \/ \E o \in ObjectIds, f \in UpdateFields, response \in RemoteResponses :
            OrgUpdate(o, f, response)
    \/ \E o \in ObjectIds, em \in EmailArgs, ph \in PhoneArgs, e \in ExtraArgs,
          response \in RemoteResponses :
            PersonUpdate(o, em, ph, e, response)

Spec == Init /\ [][Next]_vars

----------------------------------------------------------------------------
(* Claims about the facade, create and update.                              *)

\* The URI f"{base_url}{endpoint}/{id}?{api_token}" of one object.
DetailsUriOf(pd, r, obj_id) == pd.base_url \o <<r, "/", obj_id, "?">> \o pd.api_token

\* C3: on a constructed facade, a create call issues exactly one POST to the
\* resource's base URI carrying the api_token, its payload is the required
\* fields overridden by the extra fields, and when the remote answers 200
\* with a truthy success it returns the payload's data; it does not fail
\* before the request is issued.
C3_CreateIssuesOneRequest ==
    last.op = "create" =>
        /\ Len(last.reqs) = 1
        /\ last.reqs[1].method = "POST"
        /\ last.reqs[1].uri =
              pipedrive.base_url \o <<last.args.r, "?">> \o pipedrive.api_token
        /\ \A k \in DOMAIN last.reqs[1].data :
              last.reqs[1].data[k] =
                  IF k \in DOMAIN last.args.extra_fields
                  THEN last.args.extra_fields[k]
                  ELSE last.args.required[k]
        /\ DOMAIN last.reqs[1].data =
              (DOMAIN last.args.required) \cup (DOMAIN last.args.extra_fields)
        /\ (/\ last.args.response.status_code = 200
            /\ last.args.response.body.success = "true"
            /\ last.args.response.body.data.kind # "absent")
           => last.out = Return(last.args.response.body.data)

\* C4: for each of the three clients, update(id, fields) issues exactly one
\* PUT to the object's details URI and, whatever the remote answers, raises
\* nothing and returns nothing.
C4_UpdateFireAndForget ==
    (last.op = "update" /\ last.args.fields_given) =>
        /\ Len(last.reqs) = 1
        /\ last.reqs[1].method = "PUT"
        /\ last.reqs[1].uri = DetailsUriOf(pipedrive, last.args.r, last.args.id)
        /\ last.out = Return(PyNone)

\* What the normalizer makes of the answers in RemoteResponses.
Normalized(response) ==
    IF response.status_code # 200 THEN Raise("Exception", response.text)
    ELSE IF response.body.success = "true" THEN Return(response.body.data)
    ELSE IF response.body.status = "false" THEN Raise("Exception", response.body.error)
    ELSE Return(PyNone)

\* C4 as amended: update on the Deal and Organization clients issues exactly
\* one PUT to the object's details URI and returns None whatever the remote
\* answers; PersonAPI.update given extra_fields issues exactly one PUT to
\* the details URI and returns or raises what process_response makes of the
\* answer, and with extra_fields left None it raises TypeError before any
\* request is issued.
C4_UpdateAmended ==
    last.op = "update" =>
        IF last.args.fields_given
        THEN /\ Len(last.reqs) = 1
             /\ last.reqs[1].method = "PUT"
             /\ last.reqs[1].uri = DetailsUriOf(pipedrive, last.args.r, last.args.id)
             /\ IF last.args.r = "persons"
                THEN last.out = Normalized(last.args.response)
                ELSE last.out = Return(PyNone)
        ELSE /\ last.args.r = "persons"
             /\ last.reqs = <<>>
             /\ IsRaise(last.out)
             /\ last.out.exc = "TypeError"

\* C4's case: a Deal update that the remote answered with an error status
\* returned None all the same.
C4_Witness ==
    /\ last.op = "update"
    /\ last.args.r = "deals"
    /\ last.args.response.status_code = 500
    /\ Len(last.reqs) = 1
    /\ last.out = Return(PyNone)

\* The arguments and environment leave the constructor without a subdomain
\* or without an API key: the environment variable counts only when the
\* api_key argument is None.
MissingConfiguration(args) ==
    \/ args.subdomain \in {NoArg, ""}
    \/ args.api_key = ""
    \/ args.api_key = NoArg /\ environ \in {NoArg, ""}

FieldLoadsOf(reqs, pd, r) ==
    {i \in DOMAIN reqs :
        /\ reqs[i].method = "GET"
        /\ reqs[i].uri = pd.base_url \o <<fields_endpoint(r), "?">> \o pd.api_token}

\* C9: constructing the facade fails with the configuration error (a
\* ValueError) exactly when the subdomain is missing or empty or no API key
\* is available; when it does, no client has been constructed and no HTTP
\* request has been issued; when construction succeeds the three clients
\* exist and each has attempted its field load exactly once.
C9_ConfigurationError ==
    last.op = "Pipedrive" =>
        LET configError == IsRaise(last.out) /\ last.out.exc = "ValueError" IN
        /\ configError <=> MissingConfiguration(last.args)
        /\ configError =>
              /\ last.built = <<>>
              /\ last.reqs = <<>>
              /\ ~pipedrive.constructed
        /\ IsReturn(last.out) =>
              /\ pipedrive.constructed
              /\ {"deals", "organizations", "people"} \subseteq DOMAIN pipedrive
              /\ Range(last.built) = Resources
              /\ Len(last.reqs) = 3
              /\ \A r \in Resources :
                    Cardinality(FieldLoadsOf(last.reqs, pipedrive, r)) = 1

\* C9's case: the api_key argument was None, the key came from the
\* environment, and the facade was constructed.
C9_Witness ==
    /\ last.op = "Pipedrive"
    /\ IsReturn(last.out)
    /\ last.args.api_key = NoArg
    /\ pipedrive.constructed
    /\ pipedrive.api_key = "k2"

----------------------------------------------------------------------------
(* The field caches of the three clients: construction, loads, lookups.     *)

InitFields ==
    /\ environ = NoArg
    /\ pipedrive = NoObject
    /\ FieldsIdle
    /\ CachesIdle
    /\ last = NoCall

\* What the fields endpoint of resource r answers.  The organization fields
\* range over every list of up to MaxFields definitions; the deal and person
\* fields over the answers of ConstructFieldResponses and one list of two
\* fields whose names differ only in case.
FieldResponsesOf(r) ==
    IF r = "organizations"
    THEN FieldResponses
    ELSE ConstructFieldResponses
         \cup {Body("true", JList(<<[key |-> "k2", name |-> <<"e", "m">>],
                                    [key |-> "k1", name |-> <<"E", "m">>]>>),
                     "absent", "absent")}

NextFields ==
    \/ \E d \in FieldResponsesOf("deals"), o \in FieldResponsesOf("organizations"),
          p \in FieldResponsesOf("persons") :
            Construct("acme", "k1",
                      [r \in Resources |->
                          CASE r = "deals" -> d
                            [] r = "organizations" -> o
                            [] r = "persons" -> p])
    \/ \E r \in Resources, no_cache \in BOOLEAN :
            \E json_data \in FieldResponsesOf(r) : GetFields(r, no_cache, json_data)
    \/ \E r \in Resources, key \in LookupKeys : GetFieldByKey(r, key)
    \/ \E r \in Resources, name \in LookupNames : GetFieldByName(r, name)

SpecFields == InitFields /\ [][NextFields]_vars

----------------------------------------------------------------------------
(* Claims about the field caches.                                           *)

\* C7: constructing a client never fails because the fields endpoint
\* signalled non-success, and after any sequence of loads get_field_by_key
\* and get_field_by_name return a field definition or None and never raise.
C7_LookupsNeverRaise ==
    /\ (last.op = "Pipedrive" /\ ~MissingConfiguration(last.args))
          => IsReturn(last.out)
    /\ last.op \in {"get_field_by_key", "get_field_by_name"}
          => /\ IsReturn(last.out)
             /\ \/ last.out.val = PyNone
                \/ last.out.val \in Range(fields[last.args.r].val)

\* The last field of the list with the given key, and with the given
\* lowercased name.
LastWithKey(data, k) ==
    data[CHOOSE i \in DOMAIN data :
            data[i].key = k /\ \A j \in DOMAIN data : data[j].key = k => j <= i]

LastWithName(data, n) ==
    data[CHOOSE i \in DOMAIN data :
            /\ Lower(data[i].name) = n
            /\ \A j \in DOMAIN data : Lower(data[j].name) = n => j <= i]

\* The two indices of client r describe the stored field list: both unset
\* while nothing was ever stored, and otherwise the key index maps exactly
\* the keys of the stored fields and the name index exactly their lowercased
\* names, each to the last stored field of that key or name.
FieldsInSync(r) ==
    IF fields_by_key[r] = Unset \/ fields_by_name[r] = Unset
    THEN fields[r] = PyNone /\ fields_by_key[r] = Unset /\ fields_by_name[r] = Unset
    ELSE /\ fields[r].kind = "list"
         /\ LET data == fields[r].val
                bk == fields_by_key[r].map
                bn == fields_by_name[r].map
            IN /\ DOMAIN bk = {data[i].key : i \in DOMAIN data}
               /\ \A k \in DOMAIN bk :
                     bk[k] = LastWithKey(data, k)
               /\ DOMAIN bn = {Lower(data[i].name) : i \in DOMAIN data}
               /\ \A n \in DOMAIN bn :
                     bn[n] = LastWithName(data, n)

\* The latest call was a field load that asked the remote and did not store
\* its answer.
FailedRefresh ==
    /\ last.op = "_get_fields"
    /\ last.reqs # <<>>
    /\ IsRaise(last.out) \/ last.out = Return(PyNone)

----------------------------------------------------------------------------
(* The four cache-checked reads of OrganizationAPI.  A cache is a function  *)
(* from the keys it holds to the cached values.                             *)

MaxCalls == 3

OrgIds == {"1", "2"}
Terms == {"acme", "a b"}

\* urllib.parse.quote on the search terms
quote(term) == IF term = "a b" THEN "a%20b" ELSE term

\* OrganizationAPI._get_deals_uri
_get_deals_uri(pd, org_id) ==
    pd.base_url \o <<"organizations", "/", org_id, "/deals?", "start=", "0", "&">>
        \o pd.api_token

\* OrganizationAPI._get_people_uri
_get_people_uri(pd, org_id) ==
    pd.base_url \o <<"organizations", "/", org_id, "/persons?", "start=", "0", "&">>
        \o pd.api_token

\* OrganizationAPI._get_search_endpoint_uri
_get_search_endpoint_uri(pd, term) ==
    pd.base_url \o <<"organizations/search", "?", "term=", quote(term), "&",
                     "start=", "0", "&">> \o pd.api_token

\* dict.get(key) on a cache
CacheGet(cache, key) == IF key \in DOMAIN cache THEN cache[key] ELSE PyNone

\* cache[key] = value
CacheSet(cache, key, value) ==
    [k \in (DOMAIN cache) \cup {key} |-> IF k = key THEN value ELSE cache[k]]

Hit(cache, value) == [out |-> Return(value), cache |-> cache, reqs |-> <<>>]

\* OrganizationAPI.get_details: the cache is asked whether it holds the key.
get_details(pd, cache, org_id, no_cache, response) ==
    IF ~no_cache /\ org_id \in DOMAIN cache
    THEN Hit(cache, cache[org_id])
    ELSE LET reqs == <<Request("GET", _get_details_uri(pd, "organizations", org_id),
                               NoData)>>
             data == process_response(response)
         IN IF IsRaise(data)
            THEN [out |-> data, cache |-> cache, reqs |-> reqs]
            ELSE [out |-> data, cache |-> CacheSet(cache, org_id, data.val),
                  reqs |-> reqs]

\* data["items"]
ItemsOf(data) ==
    IF data.kind = "null" THEN Raise("TypeError", "'NoneType' object is not subscriptable")
    ELSE IF data.kind = "list" THEN Raise("TypeError", "list indices must be integers")
    ELSE IF "items" \in Range(data.val) THEN Return(JList(data.items))
    ELSE Raise("KeyError", "items")

\* OrganizationAPI.find: the cached value is used only if it is truthy.
find(pd, cache, term, no_cache, response) ==
    IF ~no_cache /\ Truthy(CacheGet(cache, term))
    THEN Hit(cache, CacheGet(cache, term))
    ELSE LET reqs == <<Request("GET", _get_search_endpoint_uri(pd, term), NoData)>>
             data == process_response(response)
             value == ItemsOf(data.val)
         IN IF IsRaise(data)
            THEN [out |-> data, cache |-> cache, reqs |-> reqs]
            ELSE IF IsRaise(value)
            THEN [out |-> value, cache |-> cache, reqs |-> reqs]
            ELSE [out |-> value, cache |-> CacheSet(cache, term, value.val),
                  reqs |-> reqs]

\* OrganizationAPI.get_people and get_deals: the cached value is used only if
\* it is truthy.
get_related(uri, cache, organization_id, no_cache, response) ==
    IF ~no_cache /\ Truthy(CacheGet(cache, organization_id))
    THEN Hit(cache, CacheGet(cache, organization_id))
    ELSE LET reqs == <<Request("GET", uri, NoData)>>
             data == process_response(response)
         IN IF IsRaise(data)
            THEN [out |-> data, cache |-> cache, reqs |-> reqs]
            ELSE [out |-> data, cache |-> CacheSet(cache, organization_id, data.val),
                  reqs |-> reqs]

\* OrganizationAPI.get_people
get_people(pd, cache, organization_id, no_cache, response) ==
    get_related(_get_people_uri(pd, organization_id), cache, organization_id,
                no_cache, response)

\* OrganizationAPI.get_deals
get_deals(pd, cache, organization_id, no_cache, response) ==
    get_related(_get_deals_uri(pd, organization_id), cache, organization_id,
                no_cache, response)

\* What the remote answers to a read: a payload under a true success, an
\* envelope with a false success, the alternate failure envelope, or an
\* error status.
ReadResponses(payloads) ==
    {Response(200, "ok", Body("true", d, "absent", "absent")) : d \in payloads}
    \cup {Response(200, "ok", Body("false", AbsentData, "absent", "absent")),
          Response(200, "ok", Body("absent", AbsentData, "false", "E")),
          Response(500, "oops", Body("absent", AbsentData, "absent", "absent"))}

DetailsPayloads == {JDict(<<"id">>), JDict(<<"id", "name">>), PyNone}
SearchPayloads == {JSearch(<<>>), JSearch(<<"a">>), JSearch(<<"b">>), PyNone}
RelatedPayloads == {PyNone, JList(<<>>), JList(<<"a">>), JList(<<"b">>)}

Read(op, key, no_cache, before, c) ==
    /\ last' = [op |-> op,
                args |-> [key |-> key, no_cache |-> no_cache, cached |-> before],
                out |-> c.out, reqs |-> c.reqs]
    /\ calls' = calls + 1
    /\ UNCHANGED <<facadeVars, fieldVars>>

GetDetails(org_id, no_cache, response) ==
    /\ pipedrive.constructed
    /\ calls < MaxCalls
    /\ LET c == get_details(pipedrive, _details_cache, org_id, no_cache, response) IN
       /\ _details_cache' = c.cache
       /\ Read("get_details", org_id, no_cache, org_id \in DOMAIN _details_cache, c)
    /\ UNCHANGED <<_find_cache, _people_cache, _deals_cache>>

Find(term, no_cache, response) ==
    /\ pipedrive.constructed
    /\ calls < MaxCalls
    /\ LET c == find(pipedrive, _find_cache, term, no_cache, response) IN
       /\ _find_cache' = c.cache
       /\ Read("find", term, no_cache, term \in DOMAIN _find_cache, c)
    /\ UNCHANGED <<_details_cache, _people_cache, _deals_cache>>

GetPeople(organization_id, no_cache, response) ==
    /\ pipedrive.constructed
    /\ calls < MaxCalls
    /\ LET c == get_people(pipedrive, _people_cache, organization_id, no_cache, response)
       IN /\ _people_cache' = c.cache
          /\ Read("get_people", organization_id, no_cache,
                  organization_id \in DOMAIN _people_cache, c)
    /\ UNCHANGED <<_details_cache, _find_cache, _deals_cache>>

GetDeals(organization_id, no_cache, response) ==
    /\ pipedrive.constructed
    /\ calls < MaxCalls
    /\ LET c == get_deals(pipedrive, _deals_cache, organization_id, no_cache, response)
       IN /\ _deals_cache' = c.cache
          /\ Read("get_deals", organization_id, no_cache,
                  organization_id \in DOMAIN _deals_cache, c)
    /\ UNCHANGED <<_details_cache, _find_cache, _people_cache>>

\* The facade right after a construction during which every fields endpoint
\* answered {"success": false}.
InitCache ==
    /\ environ = NoArg
    /\ pipedrive = Pipedrive_init(NoArg, "acme", "k1",
                       [r \in Resources |->
                           Body("false", AbsentData, "absent", "E")]).obj
    /\ FieldsIdle
    /\ CachesIdle
    /\ last = NoCall

NextCache ==
    \/ \E org_id \in OrgIds, no_cache \in BOOLEAN,
          response \in ReadResponses(DetailsPayloads) :
            GetDetails(org_id, no_cache, response)
    \/ \E term \in Terms, no_cache \in BOOLEAN,
          response \in ReadResponses(SearchPayloads) :
            Find(term, no_cache, response)
    \/ \E org_id \in OrgIds, no_cache \in BOOLEAN,
          response \in ReadResponses(RelatedPayloads) :
            GetPeople(org_id, no_cache, response)
    \/ \E org_id \in OrgIds, no_cache \in BOOLEAN,
          response \in ReadResponses(RelatedPayloads) :
            GetDeals(org_id, no_cache, response)

SpecCache == InitCache /\ [][NextCache]_vars

Reads == {"get_details", "find", "get_people", "get_deals"}

\* The latest call was a cache-checked read that returned.
ReadReturned == last.op \in Reads /\ IsReturn(last.out)

\* C1: of two consecutive successful calls of one cache-checked read with
\* the same key and no_cache=false, the second issues no fetch and returns
\* the value the first stored: together they issue exactly one fetch when
\* the first found the cache empty.
C1_SecondReadIsServedFromCache ==
    [][(/\ ReadReturned
        /\ ReadReturned'
        /\ last'.op = last.op
        /\ last'.args.key = last.args.key
        /\ ~last.args.no_cache
        /\ ~last'.args.no_cache)
       => /\ last'.reqs = <<>>
          /\ last'.out = last.out
          /\ ~last.args.cached => Len(last.reqs) + Len(last'.reqs) = 1]_vars

\* C2: a call with no_cache=true issues exactly one fetch whatever the cache
\* holds, and when it succeeds the next call with no_cache=false for the
\* same key returns the value just fetched.
C2_NoCacheOverwrites ==
    /\ [](last.op \in Reads /\ last.args.no_cache => Len(last.reqs) = 1)
    /\ [][(/\ ReadReturned
           /\ ReadReturned'
           /\ last'.op = last.op
           /\ last'.args.key = last.args.key
           /\ last.args.no_cache
           /\ ~last'.args.no_cache)
          => last'.out = last.out]_vars

----------------------------------------------------------------------------
(* The response normalizer on its own: process_response applied to any      *)
(* response.                                                                *)

\* process_response runs on the response it was called with.
ProcessResponse ==
    /\ last.op = "pending"
    /\ last.call = "process_response"
    /\ last' = [op |-> "process_response", args |-> last.args,
                out |-> process_response(last.args), reqs |-> <<>>]
    /\ UNCHANGED <<facadeVars, fieldVars, cacheVars>>

InitNorm ==
    /\ FacadeIdle
    /\ FieldsIdle
    /\ CachesIdle
    /\ \E response \in AllResponses : last = Pending("process_response", response)

NextNorm == ProcessResponse

SpecNorm == InitNorm /\ [][NextNorm]_vars

\* C5: for a 200 response whose body has a truthy success, process_response
\* raises nothing and returns the body's data unmodified, whatever its
\* shape, and None when the body has no data field; status and error fields
\* in the same body change nothing.
C5_SuccessReturnsData ==
    (/\ last.op = "process_response"
     /\ last.args.status_code = 200
     /\ last.args.body.success = "true")
    => last.out = Return(IF last.args.body.data.kind = "absent"
                         THEN PyNone
                         ELSE last.args.body.data)

----------------------------------------------------------------------------
(* The address matcher of OrganizationAPI.  Addresses and the reference     *)
(* components are sequences of characters, so that `in` is a substring      *)
(* test.                                                                    *)

MaxResults == 3

\* `needle in haystack` on str
Contains(needle, haystack) ==
    \E i \in 0..(Len(haystack) - Len(needle)) :
        SubSeq(haystack, i + 1, i + Len(needle)) = needle

\* OrganizationAPI._get_address_score; address is None or a str
_get_address_score(address, physical_address, physical_city, physical_state, physical_zip) ==
    IF address.t = "none" \/ address.v = <<>>
    THEN 0
    ELSE (IF Contains(physical_zip, address.v) THEN 10 ELSE 0)
         + (IF Contains(physical_address, address.v) THEN 5 ELSE 0)
         + (IF Contains(physical_city, address.v) THEN 3 ELSE 0)
         + (IF Contains(physical_state, address.v) THEN 2 ELSE 0)

NoMatch == [t |-> "none"]
Match(score, item) == [t |-> "match", score |-> score, item |-> item]

\* One pass of the loop of filter_results in which a candidate of equal
\* score replaces the match found so far.
filter_step_later_wins(likely_match, result, address_line_1, score) ==
    IF score = 0 /\ result.item.name # address_line_1
    THEN likely_match
    ELSE IF likely_match = NoMatch
    THEN Match(score, result.item)
    ELSE IF score >= likely_match.score
    THEN Match(score, result.item)
    ELSE likely_match

\* One pass of the loop of filter_results over `result`, whose address
\* scored `score`.
filter_step(likely_match, result, address_line_1, score) ==
    IF score = 0 /\ result.item.name # address_line_1
    THEN likely_match
    ELSE IF likely_match = NoMatch
    THEN Match(score, result.item)
    ELSE IF score > likely_match.score
    THEN Match(score, result.item)
    ELSE likely_match

\* The loop of filter_results from the match found so far.
RECURSIVE filter_loop(_, _, _, _)
filter_loop(results, likely_match, address_line_1, ref) ==
    IF results = <<>>
    THEN likely_match
    ELSE filter_loop(Tail(results),
                     filter_step(likely_match, Head(results), address_line_1,
                                 _get_address_score(Head(results).item.address,
                                                    ref.address, ref.city, ref.state,
                                                    ref.zip)),
                     address_line_1, ref)

\* OrganizationAPI.filter_results
filter_results(results, address_line_1, ref) ==
    filter_loop(results, NoMatch, address_line_1, ref)

\* The reference address the candidates are scored against.
Reference ==
    [address |-> <<"1", "m">>, city |-> <<"S">>, state |-> <<"I">>,
     zip |-> <<"6", "2">>]

Addresses ==
    {NoneArg, StrArg(<<>>), StrArg(<<"x">>), StrArg(<<"1", "m">>), StrArg(<<"S", "I">>),
     StrArg(<<"I", "6", "2">>), StrArg(<<"1", "m", "S", "I", "6", "2">>)}

Names == {"N", "M"}

Candidates == {[item |-> [name |-> n, address |-> a]] : n \in Names, a \in Addresses}

\* filter_results runs on the arguments it was called with.
FilterResults ==
    /\ last.op = "pending"
    /\ last.call = "filter_results"
    /\ last' = [op |-> "filter_results", args |-> last.args,
                out |-> Return(filter_results(last.args.results,
                                              last.args.address_line_1, Reference)),
                reqs |-> <<>>]
    /\ UNCHANGED <<facadeVars, fieldVars, cacheVars>>

InitMatch ==
    /\ FacadeIdle
    /\ FieldsIdle
    /\ CachesIdle
    /\ \E results \in SeqsUpTo(Candidates, MaxResults), address_line_1 \in Names :
          last = Pending("filter_results",
                         [results |-> results, address_line_1 |-> address_line_1])

NextMatch == FilterResults

SpecMatch == InitMatch /\ [][NextMatch]_vars

ScoreOf(result) ==
    _get_address_score(result.item.address, Reference.address, Reference.city,
                       Reference.state, Reference.zip)

\* The candidates that qualify: a nonzero address score, or a name equal to
\* address_line_1.
Qualifying(results, address_line_1) ==
    {i \in DOMAIN results :
        ScoreOf(results[i]) # 0 \/ results[i].item.name = address_line_1}

\* C10: filter_results returns None when no candidate qualifies, and
\* otherwise (score, record) of the qualifying candidate of maximum address
\* score, the earliest in input order among those tied at the maximum.
C10_BestAddressMatch ==
    last.op = "filter_results" =>
        LET results == last.args.results
            Q == Qualifying(results, last.args.address_line_1)
        IN IF Q = {}
           THEN last.out = Return(NoMatch)
           ELSE \E i \in Q :
                   /\ \A j \in Q : ScoreOf(results[j]) <= ScoreOf(results[i])
                   /\ \A j \in Q : j < i => ScoreOf(results[j]) < ScoreOf(results[i])
                   /\ last.out = Return(Match(ScoreOf(results[i]), results[i].item))

\* C10's case: a zero-score candidate with a matching name came first, two
\* different candidates tie at the maximum after it, and the earlier of the
\* two is returned.
C10_Witness ==
    /\ last.op = "filter_results"
    /\ Len(last.args.results) = 3
    /\ ScoreOf(last.args.results[1]) = 0
    /\ last.args.results[1].item.name = last.args.address_line_1
    /\ ScoreOf(last.args.results[2]) = 5
    /\ ScoreOf(last.args.results[3]) = 5
    /\ last.args.results[2] # last.args.results[3]
    /\ last.out = Return(Match(5, last.args.results[2].item))


----------------------------------------------------------------------------
(* The person matcher of OrganizationAPI.  Names and email addresses are    *)
(* None or sequences of characters; phone numbers are None or strings.      *)

MaxPeople == 3

\* `if x` on an Optional[str]
StrTruthy(a) == a.t = "str" /\ a.v # <<>>

\* x.lower() if x else None
LowerOrNone(a) == IF StrTruthy(a) THEN StrArg(Lower(a.v)) ELSE NoneArg

\* person_has_phone: some entry of person["phone"] equals phone
person_has_phone(phone, person) ==
    \E i \in DOMAIN person.phone : person.phone[i] = phone

\* person_has_email: some entry of person["email"], lowercased, equals email
person_has_email(email, person) ==
    \E i \in DOMAIN person.email : StrArg(Lower(person.email[i])) = email

\* filter_person: (found_first_name, found_last_name, found_email, found_phone)
filter_person(person, lower_first_name, lower_last_name, lower_email, phone) ==
    <<StrTruthy(person.first_name) /\ StrTruthy(lower_first_name)
          /\ Contains(lower_first_name.v, Lower(person.first_name.v)),
      StrTruthy(person.last_name) /\ StrTruthy(lower_last_name)
          /\ Contains(lower_last_name.v, Lower(person.last_name.v)),
      person_has_email(lower_email, person),
      person_has_phone(phone, person)>>

\* get_person_score with the weights of the phone and the email exchanged.
get_person_score_weights_exchanged(found_first_name, found_last_name, found_email, found_phone) ==
    (IF found_first_name THEN 7 ELSE 0) + (IF found_last_name THEN 8 ELSE 0)
        + (IF found_phone THEN 4 ELSE 0) + (IF found_email THEN 3 ELSE 0)

\* get_person_score
get_person_score(found_first_name, found_last_name, found_email, found_phone) ==
    (IF found_first_name THEN 7 ELSE 0) + (IF found_last_name THEN 8 ELSE 0)
        + (IF found_phone THEN 3 ELSE 0) + (IF found_email THEN 4 ELSE 0)

\* (score, person, *found_values)
PersonMatch(score, person, found_values) ==
    [t |-> "match", score |-> score, person |-> person,
     first |-> found_values[1], last |-> found_values[2],
     email |-> found_values[3], phone |-> found_values[4]]

\* The won-deals flag raised only by a candidate that passes the threshold.
won_deals_step_survivors_only(won_deals_found, person, score) ==
    won_deals_found \/ (person.won_deals_count # 0 /\ score >= 7)

\* if person["won_deals_count"]: won_deals_found = True
won_deals_step(won_deals_found, person, score) ==
    won_deals_found \/ person.won_deals_count # 0

\* The rest of one pass of the loop of filter_people_results.
people_step(likely_match, person, found_values, score) ==
    IF score = 0 \/ score < 7
    THEN likely_match
    ELSE IF likely_match = NoMatch
    THEN PersonMatch(score, person, found_values)
    ELSE IF score > likely_match.score
    THEN PersonMatch(score, person, found_values)
    ELSE likely_match

\* The loop of filter_people_results from (won_deals_found, likely_match).
RECURSIVE people_loop(_, _, _, _, _, _, _)
people_loop(people, won_deals_found, likely_match, lower_first_name, lower_last_name, lower_email, phone) ==
    IF people = <<>>
    THEN [won_deals_found |-> won_deals_found, likely_match |-> likely_match]
    ELSE LET person == Head(people)
             found_values == filter_person(person, lower_first_name, lower_last_name,
                                           lower_email, phone)
             score == get_person_score(found_values[1], found_values[2],
                                       found_values[3], found_values[4])
         IN people_loop(Tail(people),
                        won_deals_step(won_deals_found, person, score),
                        people_step(likely_match, person, found_values, score),
                        lower_first_name, lower_last_name, lower_email, phone)

\* OrganizationAPI.filter_people_results; people is None or a list
filter_people_results(people, first_name, last_name, phone, email) ==
    IF people.t = "none"
    THEN [won_deals_found |-> FALSE, likely_match |-> NoMatch]
    ELSE people_loop(people.v, FALSE, NoMatch, LowerOrNone(first_name),
                     LowerOrNone(last_name), LowerOrNone(email), phone)

Person(first_name, last_name, email, phone, won_deals_count) ==
    [first_name |-> first_name, last_name |-> last_name, email |-> email,
     phone |-> phone, won_deals_count |-> won_deals_count]

\* The candidates: against the reference ("Em", "P", "e@", "5") they score
\* 0, 3, 7 (email and phone), 7 (first name), 8, 11 (first name and email),
\* 11 (last name and phone) and 22.
People ==
    {Person(NoneArg, NoneArg, <<>>, <<>>, 0),
     Person(StrArg(<<"x">>), StrArg(<<"x">>), <<>>, <<"5">>, 2),
     Person(StrArg(<<"x">>), NoneArg, <<<<"E", "@">>>>, <<"5">>, 0),
     Person(StrArg(<<"E", "M", "x">>), StrArg(<<"x">>), <<>>, <<"9">>, 0),
     Person(StrArg(<<"x">>), StrArg(<<"p", "e">>), <<>>, <<>>, 2),
     Person(StrArg(<<"e", "m">>), StrArg(<<"x">>), <<<<"x", "@">>, <<"e", "@">>>>, <<>>, 0),
     Person(NoneArg, StrArg(<<"P">>), <<>>, <<"9", "5">>, 0),
     Person(StrArg(<<"e", "m">>), StrArg(<<"P">>), <<<<"e", "@">>>>, <<"5">>, 0)}

FirstNames == {NoneArg, StrArg(<<>>), StrArg(<<"E", "m">>)}
LastNames == {NoneArg, StrArg(<<"P">>)}
Emails == {NoneArg, StrArg(<<"E", "@">>)}
Phones == {NoArg, "5"}

PeopleArgs == {NoneArg} \cup {ListArg(l) : l \in SeqsUpTo(People, MaxPeople)}

\* filter_people_results runs on the arguments it was called with.
FilterPeopleResults ==
    /\ last.op = "pending"
    /\ last.call = "filter_people_results"
    /\ last' = [op |-> "filter_people_results", args |-> last.args,
                out |-> Return(filter_people_results(last.args.people,
                                                     last.args.first_name,
                                                     last.args.last_name,
                                                     last.args.phone, last.args.email)),
                reqs |-> <<>>]
    /\ UNCHANGED <<facadeVars, fieldVars, cacheVars>>

InitPeople ==
    /\ FacadeIdle
    /\ FieldsIdle
    /\ CachesIdle
    /\ \E people \in PeopleArgs, first_name \in FirstNames, last_name \in LastNames,
          phone \in Phones, email \in Emails :
          last = Pending("filter_people_results",
                         [people |-> people, first_name |-> first_name,
                          last_name |-> last_name, phone |-> phone, email |-> email])

NextPeople == FilterPeopleResults

SpecPeople == InitPeople /\ [][NextPeople]_vars


----------------------------------------------------------------------------
(* Claims about the person matcher.                                         *)

\* The four signals of a candidate against the reference of the call: the
\* reference first (last) name, when there is one, occurs in the candidate's
\* first (last) name, case ignored; some email of the candidate equals the
\* reference email, case ignored; some phone of the candidate equals the
\* reference phone.
FirstNameMatched(person, args) ==
    /\ args.first_name.t = "str" /\ args.first_name.v # <<>>
    /\ person.first_name.t = "str"
    /\ Contains(Lower(args.first_name.v), Lower(person.first_name.v))

LastNameMatched(person, args) ==
    /\ args.last_name.t = "str" /\ args.last_name.v # <<>>
    /\ person.last_name.t = "str"
    /\ Contains(Lower(args.last_name.v), Lower(person.last_name.v))

EmailMatched(person, args) ==
    /\ args.email.t = "str"
    /\ \E e \in Range(person.email) : Lower(e) = Lower(args.email.v)

PhoneMatched(person, args) ==
    /\ args.phone # NoArg
    /\ args.phone \in Range(person.phone)

Weight(b, w) == IF b THEN w ELSE 0

PersonScore(person, args) ==
    Weight(FirstNameMatched(person, args), 7) + Weight(LastNameMatched(person, args), 8)
        + Weight(EmailMatched(person, args), 4) + Weight(PhoneMatched(person, args), 3)

\* The candidates that pass the threshold.
Survivors(people, args) == {i \in DOMAIN people : PersonScore(people[i], args) >= 7}

\* C11: for a non-null list of candidates, the best match of
\* filter_people_results is None exactly when every candidate scores below 7,
\* and otherwise is the earliest candidate of maximum score among those
\* scoring at least 7, returned with its score and its four signals, where
\* score = 7*first + 8*last + 4*email + 3*phone of that same candidate.
C11_BestPersonMatch ==
    (last.op = "filter_people_results" /\ last.args.people.t = "list") =>
        LET people == last.args.people.v
            S == Survivors(people, last.args)
            best == last.out.val.likely_match
        IN /\ IsReturn(last.out)
           /\ best = NoMatch <=> S = {}
           /\ S # {} =>
                \E i \in S :
                   /\ \A j \in S : PersonScore(people[j], last.args)
                                      <= PersonScore(people[i], last.args)
                   /\ \A j \in S : j < i => PersonScore(people[j], last.args)
                                               < PersonScore(people[i], last.args)
                   /\ best.person = people[i]
                   /\ best.first = FirstNameMatched(people[i], last.args)
                   /\ best.last = LastNameMatched(people[i], last.args)
                   /\ best.email = EmailMatched(people[i], last.args)
                   /\ best.phone = PhoneMatched(people[i], last.args)
                   /\ best.score = Weight(best.first, 7) + Weight(best.last, 8)
                                      + Weight(best.email, 4) + Weight(best.phone, 3)

\* C11's case: a candidate below the threshold came first, then two
\* different candidates tied at 11 with different signals, and the earlier
\* of the two was returned, with the email signal and without the phone
\* signal.
C11_Witness ==
    /\ last.op = "filter_people_results"
    /\ last.args.people.t = "list"
    /\ Len(last.args.people.v) = 3
    /\ PersonScore(last.args.people.v[1], last.args) = 3
    /\ PersonScore(last.args.people.v[2], last.args) = 11
    /\ PersonScore(last.args.people.v[3], last.args) = 11
    /\ last.args.people.v[2] # last.args.people.v[3]
    /\ last.out.val.likely_match.person = last.args.people.v[2]
    /\ last.out.val.likely_match.score = 11
    /\ last.out.val.likely_match.email
    /\ ~last.out.val.likely_match.phone


\* The candidates with every won-deals count set to zero.
WithoutWonDeals(people) ==
    [i \in DOMAIN people |-> [people[i] EXCEPT !.won_deals_count = 0]]

\* The position in the list of the candidate a match was built from; 0 for
\* no match.
SelectedIndex(people, likely_match) ==
    IF likely_match = NoMatch THEN 0
    ELSE CHOOSE i \in DOMAIN people :
            /\ people[i] = likely_match.person
            /\ \A j \in DOMAIN people : people[j] = likely_match.person => i <= j

\* C12: the won-deals flag of filter_people_results is true exactly when some
\* candidate of the list has a nonzero won-deals count, whether or not that
\* candidate passes the threshold or is selected; the counts never change
\* which candidate is selected, nor its score and signals; and for a null
\* list the call returns (False, None) without raising, whatever the
\* reference arguments, None included.
C12_WonDealsFlag ==
    last.op = "filter_people_results" =>
        /\ IsReturn(last.out)
        /\ IF last.args.people.t = "none"
           THEN /\ last.out.val.won_deals_found = FALSE
                /\ last.out.val.likely_match = NoMatch
           ELSE LET people == last.args.people.v
                    plain == filter_people_results(ListArg(WithoutWonDeals(people)),
                                                   last.args.first_name,
                                                   last.args.last_name,
                                                   last.args.phone, last.args.email)
                    best == last.out.val.likely_match
                IN /\ last.out.val.won_deals_found
                      <=> \E j \in DOMAIN people : people[j].won_deals_count # 0
                   /\ SelectedIndex(people, best)
                      = SelectedIndex(WithoutWonDeals(people), plain.likely_match)
                   /\ best # NoMatch =>
                        /\ best.score = plain.likely_match.score
                        /\ <<best.first, best.last, best.email, best.phone>>
                           = <<plain.likely_match.first, plain.likely_match.last,
                               plain.likely_match.email, plain.likely_match.phone>>

\* C12's case: the only candidate with won deals scored below the threshold,
\* another candidate was selected, and the flag is true.
C12_Witness ==
    /\ last.op = "filter_people_results"
    /\ last.args.people.t = "list"
    /\ Len(last.args.people.v) = 2
    /\ last.args.people.v[1].won_deals_count # 0
    /\ PersonScore(last.args.people.v[1], last.args) = 3
    /\ last.args.people.v[2].won_deals_count = 0
    /\ last.out.val.likely_match # NoMatch
    /\ last.out.val.likely_match.person = last.args.people.v[2]
    /\ last.out.val.won_deals_found


----------------------------------------------------------------------------
(* The frame of the cache-checked reads, on SpecCache.                      *)

\* The cache a read works on.
CacheOf(op) ==
    CASE op = "get_details" -> _details_cache
      [] op = "find" -> _find_cache
      [] op = "get_people" -> _people_cache
      [] op = "get_deals" -> _deals_cache

\* The latest call was a cache-checked read that ended in an error.
ReadFailed == last.op \in Reads /\ IsRaise(last.out)

\* A read that ends in an error leaves the four caches as they were.
FailedReadKeepsCaches == [][ReadFailed' => UNCHANGED resultCaches]_vars

\* After a read that ended in an error, the value cached for its key is what
\* the next call for that key with no_cache=false returns.
CachedValueSurvivesFailure ==
    [][(/\ ReadFailed
        /\ last.args.key \in DOMAIN CacheOf(last.op)
        /\ last'.op = last.op
        /\ last'.args.key = last.args.key
        /\ ~last'.args.no_cache)
       => last'.out = Return(CacheOf(last.op)[last.args.key])]_vars

\* A read changes at most the entry of its own key in its own cache.
ReadTouchesOwnEntryOnly ==
    [][\A op \in Reads :
          \/ (CacheOf(op))' = CacheOf(op)
          \/ /\ last'.op = op
             /\ DOMAIN (CacheOf(op))' = (DOMAIN CacheOf(op)) \cup {last'.args.key}
             /\ \A k \in DOMAIN CacheOf(op) :
                   k # last'.args.key => (CacheOf(op))'[k] = CacheOf(op)[k]]_vars

\* C13: a cache-checked read that ends in an error leaves all four result
\* caches exactly as they were, a value cached earlier for its key is still
\* returned by the next call with no_cache=false, and a read for one key
\* never changes the entry of another key or another of the four caches.
C13_FailedReadsLeaveCaches ==
    /\ FailedReadKeepsCaches
    /\ CachedValueSurvivesFailure
    /\ ReadTouchesOwnEntryOnly

=============================================================================
